---- MODULE Spec2Model ----
(***************************************************************************)
(* Model of examples/python-packages/page-generator.py: generate_page      *)
(* copies a template to an output file and replaces every line containing  *)
(* 'DATA' by the lines of the data file (all of them, or a random sample   *)
(* of k of the first num_packages line indices).                           *)
(*                                                                         *)
(* A file is a record [exists, lines]; a line is a tuple of characters.    *)
(* The optional argument k is a tuple: <<>> is None, <<n>> is the int n.   *)
(***************************************************************************)
EXTENDS Integers, Sequences, FiniteSets, TLC

\* ---------------------------------------------------------------- bounds
MaxTemplate == 3      \* longest template, in lines
MaxData == 3          \* longest data file, in lines
MaxFlush == 1         \* how often the writer's buffer fills during a call
MaxCalls == 2         \* calls the script makes, one after the other

\* ------------------------------------------------------ module constants
data_filename == "python-packages-data.txt"
template_filename == "python-packages-template.html"
\* 299594 in the source; scaled so that files shorter than, equal to and
\* longer than the configured count all fit under MaxData
num_packages == 2

Marker == <<"D", "A", "T", "A">>

\* ------------------------------------------------------------ the inputs
OutPath == "out.html"
BadPath == "no-such-dir/out.html"     \* cannot be created
Paths == {template_filename, data_filename, OutPath, BadPath}

\* template lines: one that only resembles the marker, one that contains it
PlainLine == <<"D", "A", "T", "-">>
MarkerLine == <<"<", "D", "A", "T", "A", ">">>
TemplateLineSet == {PlainLine, MarkerLine}
OldLine == <<"o", "l", "d">>

\* records are opaque: data files of n different records, and of n equal ones
Record(i) == <<"r", ToString(i)>>
DataFiles ==
  UNION {{[i \in 1..n |-> Record(i)], [i \in 1..n |-> Record(1)]} : n \in 0..MaxData}

None == <<>>
KRange == {None} \cup {<<i>> : i \in (0 - 1)..(num_packages + 1)}

SeqsUpTo(S, n) == UNION {[1..m -> S] : m \in 0..n}

NoFile == [exists |-> FALSE, lines |-> <<>>]
File(ls) == [exists |-> TRUE, lines |-> ls]

\* ------------------------------------------------------- pure operations
\* 'DATA' in line
Contains(sub, s) ==
  \E i \in 0..(Len(s) - Len(sub)) : SubSeq(s, i + 1, i + Len(sub)) = sub

\* variant: indices drawn with replacement, so fewer than kk may be distinct
RandomSampleWithReplacement(n, kk) ==
  IF kk < 0 \/ kk > n
    THEN {[raises |-> TRUE, indices |-> {}]}
    ELSE {[raises |-> FALSE, indices |-> S] :
            S \in {T \in SUBSET (0..(n - 1)) :
                     Cardinality(T) <= kk /\ (kk > 0 => T # {})}}

\* variant: kk is clamped to the population instead of being rejected
RandomSampleClamped(n, kk) ==
  IF kk < 0 THEN {[raises |-> FALSE, indices |-> {}]}
  ELSE IF kk > n THEN {[raises |-> FALSE, indices |-> 0..(n - 1)]}
  ELSE {[raises |-> FALSE, indices |-> S] :
          S \in {T \in SUBSET (0..(n - 1)) : Cardinality(T) = kk}}

\* set(random.sample(range(n), kk)): the possible outcomes, a ValueError
\* when kk is negative or larger than the population, else any kk distinct
\* indices
RandomSample(n, kk) ==
  IF kk < 0 \/ kk > n
    THEN {[raises |-> TRUE, indices |-> {}]}
    ELSE {[raises |-> FALSE, indices |-> S] :
            S \in {T \in SUBSET (0..(n - 1)) : Cardinality(T) = kk}}

\* variant: the membership test is lost and every line is yielded
SelectedAny(index, ind) == TRUE

\* variant: the lines are counted from 1
SelectedOneBased(index, ind) == (index + 1) \in ind

\* if index in indices
Selected(index, ind) == index \in ind

\* variant: the output is opened for appending
TruncateKeep(f, path) == [f EXCEPT ![path] = File(f[path].lines)]

\* variant: the template is opened for writing too
TruncateSources(f, path) ==
  [p \in DOMAIN f |-> IF p \in {path, template_filename} THEN File(<<>>) ELSE f[p]]

\* open(path, 'w'): create or truncate
Truncate(f, path) == [f EXCEPT ![path] = File(<<>>)]

\* the writer's buffer reaches the file
Flush(f, path, buf) ==
  [f EXCEPT ![path] = File(f[path].lines \o buf)]

\* variant: the writer is dropped without close(), its buffer is lost
CloseWriterDiscard(f, path, buf) == f

\* leaving `with open(filename, 'w') as writer`: close() flushes the buffer
CloseWriter(f, path, buf) == Flush(f, path, buf)

VARIABLES fs, filename, k, pre, calls, last,
          pc, err, handles, tpos, wbuf, flushes,
          gen, indices, dpos, emitted

callVars == <<filename, k, pre, calls, last>>
genVars == <<gen, indices, dpos, emitted>>
vars == <<fs, filename, k, pre, calls, last, pc, err, handles, tpos, wbuf,
          flushes, gen, indices, dpos, emitted>>

NoLast == [called |-> FALSE, out |-> NoFile]

Init ==
  /\ \E t \in {NoFile} \cup {File(s) : s \in SeqsUpTo(TemplateLineSet, MaxTemplate)},
        d \in {NoFile} \cup {File(s) : s \in DataFiles},
        o \in {NoFile, File(<<OldLine>>)} :
       fs = [p \in Paths |->
               IF p = template_filename THEN t
               ELSE IF p = data_filename THEN d
               ELSE IF p = OutPath THEN o ELSE NoFile]
  /\ filename = OutPath
  /\ k = None
  /\ pre = fs
  /\ calls = 0
  /\ last = NoLast
  /\ pc = "idle"
  /\ err = "none"
  /\ handles = {}
  /\ tpos = 0
  /\ wbuf = <<>>
  /\ flushes = 0
  /\ gen = "none"
  /\ indices = {}
  /\ dpos = 0
  /\ emitted = <<>>

\* the state of one call before its first statement
Enter ==
  /\ pre' = fs
  /\ pc' = "open_template"
  /\ err' = "none"
  /\ handles' = {}
  /\ tpos' = 0
  /\ wbuf' = <<>>
  /\ flushes' = 0
  /\ gen' = "none"
  /\ indices' = {}
  /\ dpos' = 0
  /\ emitted' = <<>>
  /\ UNCHANGED fs

\* generate_page(f, kk)
Call(f, kk) ==
  /\ pc = "idle"
  /\ filename' = f
  /\ k' = kk
  /\ calls' = 1
  /\ last' = NoLast
  /\ Enter

\* the script makes the same call once more; it got here only if the call
\* before returned, an exception ends the script
Rerun ==
  /\ pc = "done"
  /\ err = "none"
  /\ calls < MaxCalls
  /\ calls' = calls + 1
  /\ last' = [called |-> TRUE, out |-> fs[filename]]
  /\ UNCHANGED <<filename, k>>
  /\ Enter

\* an exception leaves both with blocks: the writer is flushed and closed,
\* the template is closed; a data reader that is open stays as it is
Raise(e) ==
  /\ pc' = "done"
  /\ err' = e
  /\ fs' = IF e = "write:OSError" THEN fs ELSE CloseWriter(fs, filename, wbuf)
  /\ wbuf' = <<>>
  /\ UNCHANGED <<tpos, flushes, callVars>>

\* variant: the two with statements are swapped, the output is opened first
OpenTemplateLate ==
  /\ pc = "open_template"
  /\ IF fs[template_filename].exists
       THEN /\ handles' = handles \cup {"reference"}
            /\ pc' = "open_writer"
            /\ UNCHANGED <<err, fs>>
       ELSE /\ pc' = "done"
            /\ err' = "template:FileNotFoundError"
            /\ fs' = IF filename = BadPath THEN fs ELSE Truncate(fs, filename)
            /\ UNCHANGED handles
  /\ UNCHANGED <<tpos, wbuf, flushes, callVars, genVars>>

\* with open(template_filename, 'r') as reference
OpenTemplate ==
  /\ pc = "open_template"
  /\ IF fs[template_filename].exists
       THEN /\ handles' = handles \cup {"reference"}
            /\ pc' = "open_writer"
            /\ UNCHANGED err
       ELSE /\ pc' = "done"
            /\ err' = "template:FileNotFoundError"
            /\ UNCHANGED handles
  /\ UNCHANGED <<fs, tpos, wbuf, flushes, callVars, genVars>>

\* with open(filename, 'w') as writer
OpenWriter ==
  /\ pc = "open_writer"
  /\ IF filename = BadPath
       THEN /\ pc' = "done"
            /\ err' = "output:OSError"
            /\ handles' = handles \ {"reference"}
            /\ UNCHANGED fs
       ELSE /\ fs' = Truncate(fs, filename)
            /\ handles' = handles \cup {"writer"}
            /\ pc' = "for_line"
            /\ UNCHANGED err
  /\ UNCHANGED <<tpos, wbuf, flushes, callVars, genVars>>

\* variant: the line never reaches the writer
WriteOkDrop(line, full) ==
  /\ wbuf' = wbuf
  /\ UNCHANGED <<fs, flushes>>

\* writer.write(line) that succeeds: the line is buffered, and the buffer is
\* written out when it is full
WriteOk(line, full) ==
  IF full
    THEN /\ flushes < MaxFlush
         /\ fs' = Flush(fs, filename, Append(wbuf, line))
         /\ wbuf' = <<>>
         /\ flushes' = flushes + 1
    ELSE /\ wbuf' = Append(wbuf, line)
         /\ UNCHANGED <<fs, flushes>>

AtTemplateLine ==
  /\ pc = "for_line"
  /\ tpos < Len(fs[template_filename].lines)

TemplateLine == fs[template_filename].lines[tpos + 1]

\* else: writer.write(line)
WriteLine ==
  /\ AtTemplateLine
  /\ ~Contains(Marker, TemplateLine)
  /\ \/ /\ \E full \in BOOLEAN : WriteOk(TemplateLine, full)
        /\ tpos' = tpos + 1
        /\ UNCHANGED <<pc, err, handles, callVars>>
     \/ /\ Raise("write:OSError")
        /\ handles' = handles \ {"writer", "reference"}
  /\ UNCHANGED genVars

\* if 'DATA' in line: writer.writelines(get_data() or sample_data(k)); the
\* generator object is created, its body has not started
StartExpand ==
  /\ AtTemplateLine
  /\ Contains(Marker, TemplateLine)
  /\ tpos' = tpos + 1
  /\ pc' = IF k = None THEN "get_data" ELSE "sample_data"
  /\ gen' = "created"
  /\ indices' = {}
  /\ dpos' = 0
  /\ emitted' = <<>>
  /\ UNCHANGED <<fs, err, handles, wbuf, flushes, callVars>>

\* get_data, first next(): reader = open(data_filename, 'r')
GetDataOpen ==
  /\ pc = "get_data"
  /\ IF fs[data_filename].exists
       THEN /\ handles' = handles \cup {"reader"}
            /\ pc' = "get_data_loop"
            /\ gen' = "running"
            /\ UNCHANGED <<fs, err, wbuf, tpos, flushes, callVars>>
       ELSE /\ Raise("data:FileNotFoundError")
            /\ handles' = handles \ {"writer", "reference"}
            /\ gen' = "raised"
  /\ UNCHANGED <<indices, dpos, emitted>>

\* sample_data, first next(): indices = set(random.sample(...)), then
\* reader = open(data_filename, 'r')
SampleDataOpen ==
  /\ pc = "sample_data"
  /\ \E r \in RandomSample(num_packages, k[1]) :
       /\ indices' = r.indices
       /\ IF r.raises
            THEN /\ Raise("ValueError")
                 /\ handles' = handles \ {"writer", "reference"}
                 /\ gen' = "raised"
            ELSE IF fs[data_filename].exists
                   THEN /\ handles' = handles \cup {"reader"}
                        /\ pc' = "sample_data_loop"
                        /\ gen' = "running"
                        /\ UNCHANGED <<fs, err, wbuf, tpos, flushes, callVars>>
                   ELSE /\ Raise("data:FileNotFoundError")
                        /\ handles' = handles \ {"writer", "reference"}
                        /\ gen' = "raised"
  /\ UNCHANGED <<dpos, emitted>>

\* the generator is suspended at its yield when writelines raises: its
\* reader.close() is never reached, and whether the reader is closed depends
\* on when the interpreter finalises the abandoned generator
Abandon ==
  /\ Raise("write:OSError")
  /\ gen' = "abandoned"
  /\ \E finalised \in BOOLEAN :
       handles' = (handles \ {"writer", "reference"})
                    \ (IF finalised THEN {"reader"} ELSE {})

\* the for loop of a generator finds the file exhausted: reader.close()
Exhaust ==
  /\ handles' = handles \ {"reader"}
  /\ gen' = "exhausted"
  /\ pc' = "for_line"
  /\ UNCHANGED <<fs, err, wbuf, tpos, flushes, callVars, indices, dpos, emitted>>

DataLine == fs[data_filename].lines[dpos + 1]

\* the generator yields the line at dpos and writelines writes it
Yield ==
  \/ /\ \E full \in BOOLEAN : WriteOk(DataLine, full)
     /\ emitted' = Append(emitted, <<dpos, DataLine>>)
     /\ dpos' = dpos + 1
     /\ UNCHANGED <<pc, err, handles, tpos, callVars, gen, indices>>
  \/ /\ Abandon
     /\ emitted' = Append(emitted, <<dpos, DataLine>>)
     /\ UNCHANGED <<dpos, indices>>

\* get_data: for line in reader: yield line
GetDataNext ==
  /\ pc = "get_data_loop"
  /\ IF dpos < Len(fs[data_filename].lines) THEN Yield ELSE Exhaust

\* sample_data: for index, line in enumerate(reader): if index in indices
SampleDataNext ==
  /\ pc = "sample_data_loop"
  /\ IF dpos < Len(fs[data_filename].lines)
       THEN IF Selected(dpos, indices)
              THEN Yield
              ELSE /\ dpos' = dpos + 1
                   /\ UNCHANGED <<fs, pc, err, handles, tpos, wbuf, flushes,
                                  callVars, gen, indices, emitted>>
       ELSE Exhaust

\* the template is exhausted: both with blocks are left normally
Return ==
  /\ pc = "for_line"
  /\ tpos >= Len(fs[template_filename].lines)
  /\ fs' = CloseWriter(fs, filename, wbuf)
  /\ wbuf' = <<>>
  /\ handles' = handles \ {"writer", "reference"}
  /\ pc' = "done"
  /\ UNCHANGED <<err, tpos, flushes, callVars, genVars>>

Next ==
  \/ \E f \in Paths, kk \in KRange : Call(f, kk)
  \/ Rerun
  \/ OpenTemplate
  \/ OpenWriter
  \/ WriteLine
  \/ StartExpand
  \/ GetDataOpen
  \/ SampleDataOpen
  \/ GetDataNext
  \/ SampleDataNext
  \/ Return

Spec == Init /\ [][Next]_vars

TypeOK ==
  /\ pc \in {"idle", "open_template", "open_writer", "for_line", "get_data",
             "sample_data", "get_data_loop", "sample_data_loop", "done"}
  /\ handles \subseteq {"reference", "writer", "reader"}
  /\ filename \in Paths
  /\ k \in KRange

\* ------------------------------------------------- what the claims use
\* the output path names neither source file
NonAlias == filename \notin {template_filename, data_filename}

Template == pre[template_filename].lines
Data == pre[data_filename].lines
Output == fs[filename]

Returned == pc = "done" /\ err = "none"

KValid == k # None /\ k[1] >= 0 /\ k[1] <= num_packages
KInvalid == k # None /\ (k[1] < 0 \/ k[1] > num_packages)

MarkerAt(t) == {i \in 1..Len(t) : Contains(Marker, t[i])}

RECURSIVE ExpandAll(_, _)
\* template t with every marker line replaced by all of d
ExpandAll(t, d) ==
  IF t = <<>> THEN <<>>
  ELSE (IF Contains(Marker, Head(t)) THEN d ELSE <<Head(t)>>)
         \o ExpandAll(Tail(t), d)

RECURSIVE BeforeMarker(_)
\* the lines of t before its first marker line
BeforeMarker(t) ==
  IF t = <<>> \/ Contains(Marker, Head(t)) THEN <<>>
  ELSE <<Head(t)>> \o BeforeMarker(Tail(t))

\* the lines of d at the 0-based indices I, in file order
Pick(d, I) ==
  LET F[n \in 0..Len(d)] ==
        IF n = 0 THEN <<>>
        ELSE IF (n - 1) \in I THEN Append(F[n - 1], d[n]) ELSE F[n - 1]
  IN F[Len(d)]

\* the <<index, line>> pairs of d at the indices I, in file order
PickPairs(d, I) ==
  LET F[n \in 0..Len(d)] ==
        IF n = 0 THEN <<>>
        ELSE IF (n - 1) \in I THEN Append(F[n - 1], <<n - 1, d[n]>>)
             ELSE F[n - 1]
  IN F[Len(d)]

EmittedLines == [i \in 1..Len(emitted) |-> emitted[i][2]]

\* C1: a render(output, None) that returns leaves the output file equal to
\* the template with every line containing 'DATA' replaced by all lines of
\* the data file in file order and every other line unchanged, whatever the
\* output file held before; a second such call leaves the same file.
C1_RenderAll ==
  (Returned /\ k = None /\ NonAlias) =>
     /\ Output = File(ExpandAll(Template, Data))
     /\ last.called => Output = last.out

C1_Witness ==
  /\ Returned /\ k = None /\ NonAlias
  /\ last.called
  /\ Cardinality(MarkerAt(Template)) = 2
  /\ Len(Template) = 3
  /\ Len(Data) >= 2
  /\ Data[1] # Data[2]

C1_WitnessOverwrite ==
  /\ Returned /\ k = None /\ NonAlias
  /\ ~last.called
  /\ pre[filename] = File(<<OldLine>>)
  /\ MarkerAt(Template) = {2}
  /\ Len(Template) = 3
  /\ Len(Data) = 3

\* C2 as stated: with one marker line and 0 <= k <= num_packages, a render
\* that returns leaves the lines before the marker, then exactly k data lines
\* of distinct ascending indices, then the lines after the marker.
C2_Original ==
  (Returned /\ KValid /\ NonAlias /\ Cardinality(MarkerAt(Template)) = 1) =>
     LET m == CHOOSE i \in MarkerAt(Template) : TRUE
     IN \E I \in SUBSET (0..(Len(Data) - 1)) :
          /\ Cardinality(I) = k[1]
          /\ Output = File(SubSeq(Template, 1, m - 1) \o Pick(Data, I)
                             \o SubSeq(Template, m + 1, Len(Template)))

\* C2 amended: the same, for a data file of at least num_packages lines.
C2_RenderSample ==
  (Returned /\ KValid /\ NonAlias /\ Cardinality(MarkerAt(Template)) = 1
     /\ Len(Data) >= num_packages) =>
     LET m == CHOOSE i \in MarkerAt(Template) : TRUE
     IN \E I \in SUBSET (0..(Len(Data) - 1)) :
          /\ Cardinality(I) = k[1]
          /\ Output = File(SubSeq(Template, 1, m - 1) \o Pick(Data, I)
                             \o SubSeq(Template, m + 1, Len(Template)))

C2_Witness ==
  /\ Returned /\ KValid /\ NonAlias
  /\ MarkerAt(Template) = {2}
  /\ Len(Template) = 3
  /\ Len(Data) > num_packages
  /\ k[1] = 1
  /\ indices = {1}
  /\ Data[1] # Data[2]

\* C3 as stated: for 0 <= k <= num_packages, sample_data(k) run to exhaustion
\* yields exactly k lines of distinct ascending indices; sample_data(0)
\* yields nothing and sample_data(num_packages) yields the whole data file.
C3_Original ==
  (gen = "exhausted" /\ KValid /\ filename # data_filename) =>
     /\ Len(emitted) = k[1]
     /\ \E I \in SUBSET (0..(Len(Data) - 1)) : emitted = PickPairs(Data, I)
     /\ k[1] = num_packages => EmittedLines = Data

\* C3 amended: on a data file of at least num_packages lines sample_data(k)
\* yields exactly k lines of distinct ascending indices, each the data line
\* at its index; sample_data(0) yields nothing on any data file; and
\* sample_data(num_packages) yields the whole data file when the file has
\* exactly num_packages lines.
C3_SampleData ==
  (gen = "exhausted" /\ KValid /\ filename # data_filename) =>
     /\ Len(Data) >= num_packages =>
          /\ Len(emitted) = k[1]
          /\ \E I \in SUBSET (0..(Len(Data) - 1)) :
               Cardinality(I) = k[1] /\ emitted = PickPairs(Data, I)
     /\ k[1] = 0 => emitted = <<>>
     /\ (k[1] = num_packages /\ Len(Data) = num_packages) => EmittedLines = Data

C3_Witness ==
  /\ gen = "exhausted" /\ KValid /\ filename # data_filename
  /\ k[1] = num_packages
  /\ Len(Data) = num_packages
  /\ Len(emitted) = num_packages

\* C4 as stated: every render(output, k) with k < 0 or k > num_packages ends
\* with the ValueError of random.sample, none returns normally, and
\* sample_data(k) yields no line (calls that an I/O error of the template or
\* the output ends are left aside).
C4_Original ==
  (pc = "done" /\ KInvalid /\ NonAlias
     /\ err \notin {"template:FileNotFoundError", "output:OSError", "write:OSError"}) =>
     (err = "ValueError" /\ emitted = <<>>)

\* C4 amended: a render(output, k) with k < 0 or k > num_packages that reaches
\* a marker line ends with the ValueError of random.sample, and
\* sample_data(k) yields no line and opens no reader; a call that reaches no
\* marker line (none in the template, or an I/O error before it) never raises
\* that error and, short of an I/O error of the template or the output,
\* returns normally.
C4_InvalidK ==
  KInvalid =>
     /\ emitted = <<>>
     /\ "reader" \notin handles
     /\ gen \in {"none", "created", "raised"}
     /\ pc = "done" =>
          /\ gen # "none" <=> err = "ValueError"
          /\ gen = "none" =>
               err \in {"none", "template:FileNotFoundError", "output:OSError",
                        "write:OSError"}

C4_Witness ==
  /\ pc = "done" /\ KInvalid /\ k[1] > num_packages
  /\ err = "ValueError"
  /\ gen = "raised"
  /\ pre[data_filename].exists
  /\ Len(Data) > num_packages

C6_AllClosed == pc = "done" => handles = {}

\* C7 as stated: after any render(output_path, k), for any output_path, the
\* template file and the data file hold what they held before the call.
C7_Original ==
  (pc = "done" /\ pre[template_filename].exists /\ pre[data_filename].exists) =>
     /\ fs[template_filename] = pre[template_filename]
     /\ fs[data_filename] = pre[data_filename]

\* C7 amended: for any output_path other than the template's and the data
\* file's own path, the template file and the data file hold what they held
\* before the call, during the call and after it, however it ends.
C7_SourcesUnchanged ==
  NonAlias =>
     /\ fs[template_filename] = pre[template_filename]
     /\ fs[data_filename] = pre[data_filename]

C7_Witness ==
  /\ pc = "done" /\ NonAlias /\ filename # BadPath
  /\ err = "write:OSError"
  /\ gen = "abandoned"
  /\ Len(Data) >= 2
  /\ Output # pre[filename]
  /\ Len(Output.lines) > 0

\* C8: when the expansion of a marker line fails (ValueError for k, or the
\* data file cannot be opened), render() is over with that error, and the
\* output file exists and holds exactly the template lines before that marker
\* line: its previous content is gone and no later line is written.
C8_FailedExpansion ==
  gen = "raised" =>
     /\ pc = "done"
     /\ err \in {"ValueError", "data:FileNotFoundError"}
     /\ handles = {}
     /\ Output = File(BeforeMarker(Template))

C8_Witness ==
  /\ gen = "raised"
  /\ err = "data:FileNotFoundError"
  /\ pre[filename] = File(<<OldLine>>)
  /\ MarkerAt(Template) = {2}
  /\ Len(Template) = 3
  /\ Output = File(<<PlainLine>>)

\* C9: when the data file's line count n differs from num_packages,
\* sample_data(k) with 0 <= k <= num_packages raises nothing when the file
\* can be opened, and run to exhaustion it yields exactly the lines whose
\* index is in the drawn set and below n, in ascending order: fewer than k
\* lines are possible when n < num_packages, and no line at an index
\* >= num_packages is yielded when n > num_packages.
C9_CountMismatch ==
  (KValid /\ filename # data_filename /\ pre[data_filename].exists
     /\ Len(Data) # num_packages) =>
     /\ gen # "raised"
     /\ gen = "exhausted" =>
          /\ Cardinality(indices) = k[1]
          /\ indices \subseteq 0..(num_packages - 1)
          /\ emitted = PickPairs(Data, indices \cap (0..(Len(Data) - 1)))
          /\ \A i \in 1..Len(emitted) : emitted[i][1] < num_packages

C9_Witness ==
  /\ KValid /\ filename # data_filename /\ pre[data_filename].exists
  /\ gen = "exhausted"
  /\ Len(Data) = 1
  /\ k[1] = 2
  /\ Len(emitted) = 1

C9_WitnessLonger ==
  /\ KValid /\ filename # data_filename /\ pre[data_filename].exists
  /\ gen = "exhausted"
  /\ Len(Data) > num_packages
  /\ k[1] = num_packages
  /\ Len(emitted) = num_packages

\* C10: the output file is opened only while the template is open, and when
\* the template cannot be opened render() is over with that error and no
\* file is created or changed.
C10_TemplateFirst ==
  /\ "writer" \in handles => "reference" \in handles
  /\ err = "template:FileNotFoundError" =>
       /\ pc = "done"
       /\ fs = pre
       /\ handles = {}

C10_Witness ==
  /\ err = "template:FileNotFoundError"
  /\ filename = OutPath
  /\ pre[filename] = File(<<OldLine>>)
  /\ Output = File(<<OldLine>>)
====
